---- MODULE Spec2Model ----
(***************************************************************************)
(* Model of Scripts/translate_remaining_entries.py: the reconciliation of  *)
(* the per-locale .resw stores against the en-US reference store, the      *)
(* retrying translation call, and the incremental persistence of results.  *)
(*                                                                         *)
(* A text is a sequence of one-character strings, so that strip(), the     *)
(* truth value of a string and exact comparison are computed, not assumed. *)
(* A <comment> status is the sequence of its ':'-terminated parts, so that *)
(* startswith() is a real prefix test.  Python's None is the empty         *)
(* sequence None and a present value v is <<v>>.                           *)
(***************************************************************************)
EXTENDS Integers, Sequences, FiniteSets, TLC

\* ------------------------------------------------------------------ bounds
MaxRuns == 2

\* In the specification of the long pass: the retryable failures that
\* translator.translate raises in a row for one work item.
PassRetries == 1

\* The calls of add_entry_to_resw and remove_entry that are followed.
MaxEdits == 3

\* The calls of add_entry_to_resw that are followed before, between and after
\* the runs of main.
AutoEdits == 1

\* ------------------------------------------------------- program constants
max_retries == 10
BATCH_SIZE == 5

TECHNICAL_KEYS ==
    {"AppName", "KBComboBoxItem.Content", "MBComboBoxItem.Content",
     "GBComboBoxItem.Content", "URLPresetButton.Content"}

\* The keys named by the hard-coded lists of lines 178 and 387.
AlwaysCompleteKeys ==
    {"AppName", "KBComboBoxItem.Content", "MBComboBoxItem.Content",
     "GBComboBoxItem.Content"}

\* The locale directories of the model, and the rows of LANG_CODE_MAP for them.
EnUS == "en-US"
LANG_CODE_MAP ==
    [l \in {"de-DE", "fj-FJ", "fr-FR"} |->
        IF l = "de-DE" THEN "de" ELSE IF l = "fj-FJ" THEN "en" ELSE "fr"]

\* The locale directories the model knows, as sorted() orders them.
LocaleOrder == <<"de-DE", "fj-FJ", "fr-FR">>

\* ------------------------------------------------------------------- texts
Hi == <<"H", "i">>
Bye == <<"B", "y", "e">>
Tab == <<"T", "a", "b">>
Grex == <<"G", "r", "e", "x">>
Url == <<"U", "R", "L">>
Kb == <<"K", "B">>
Salut == <<"S", "a", "l", "u", "t">>
Xx == <<"X", "x">>
EmptyText == <<>>

IsSpace(c) == c = " "

RECURSIVE lstrip(_)
lstrip(t) == IF t # <<>> /\ IsSpace(Head(t)) THEN lstrip(Tail(t)) ELSE t

RECURSIVE rstrip(_)
rstrip(t) ==
    IF t # <<>> /\ IsSpace(t[Len(t)]) THEN rstrip(SubSeq(t, 1, Len(t) - 1)) ELSE t

\* str.strip()
strip(t) == rstrip(lstrip(t))

\* bool(str): the empty string is false
Truthy(t) == t # EmptyText

\* Optional values: None, or <<v>>
None == <<>>
Some(v) == <<v>>
IsNone(o) == o = None
Val(o) == o[1]

\* dict.get(key, default)
Get(d, k, default) == IF k \in DOMAIN d THEN d[k] ELSE default

\* d[k] = v
Put(d, k, v) == [x \in DOMAIN d \cup {k} |-> IF x = k THEN v ELSE d[x]]

EmptyDict == [x \in {} |-> None]

\* ---------------------------------------------------------- status markers
StatusComplete == <<"status:", "complete">>
StatusIncomplete == <<"status:", "incomplete">>
StatusErrorPrefix == <<"status:", "error:">>
StatusErrorPermanent == <<"status:", "error:", "permanent">>
StatusError(msg) == StatusErrorPrefix \o <<msg>>

MsgNone == "Translation service returned None"
MsgInvalid == "Invalid destination language"
MsgSame == "Translation same as English"
MsgNoTranslator == "Translator not available"
MsgDefault == "Translation failed"

\* str.startswith(prefix), on a present status
startswith(s, prefix) ==
    Len(s) >= Len(prefix) /\ SubSeq(s, 1, Len(prefix)) = prefix

\* A <data> element: its <value> text and its <comment> text (None: no comment).
Entry(v, c) == [value |-> v, comment |-> c]

\* get_comment_status: the comment of a <data> element, None when it has none
get_comment_status(data_elem) == data_elem.comment

\* set_comment_status: the <data> element with its comment set
set_comment_status(data_elem, status) == [data_elem EXCEPT !.comment = Some(status)]

\* parse_resw_file: name -> value of a store (a function from its keys to entries)
parse_resw_file(store) == [k \in DOMAIN store |-> store[k].value]

\* ------------------------------------------------------------ en-US order
\* The order of the <data> elements of en-US/Resources.resw: the order in
\* which find_untranslated_entries visits the keys and fills `untranslated`.
\* A resource name that holds double quotes.
QuotedKey == "Say\"Hi\""

KeyOrder ==
    <<"AppName", "Greeting", "URLPresetButton.Content", "Farewell", "TabItem",
      "KBComboBoxItem.Content", "MBComboBoxItem.Content", "GBComboBoxItem.Content",
      "Legacy", "Open", "Save", "Close", "Help", QuotedKey>>

Keys == {KeyOrder[n] : n \in 1..Len(KeyOrder)}

\* ------------------------------------------------ find_untranslated_entries
\* One pass of the loop body for `key`: whether the key is put in
\* `untranslated`, and the key's <data> element afterwards (when it has one).
NoElem == [enqueue |-> FALSE, mark |-> FALSE]

\* Line 171: the key is one of the technical keys.
IsTechnicalKey(k) == k \in TECHNICAL_KEYS

\* A permanent error that is tried again like any other error.
IsPermanentErrorIgnored(comment_status) == FALSE

\* Lines 195-197: the entry is marked as a permanent error.
IsPermanentError(comment_status) ==
    ~IsNone(comment_status) /\ startswith(Val(comment_status), StatusErrorPermanent)

\* A translated value that is not recognised as one.
AlreadyTranslatedIgnored(target_value, english_text) == FALSE

\* Line 206: the value does not match English (the entry is translated).
AlreadyTranslated(target_value, english_text) == target_value # english_text

\* Only the entries explicitly marked as incomplete are translated.
NeedsTranslationIncompleteOnly(comment_status) ==
    comment_status = Some(StatusIncomplete)

\* Lines 213-221: the value matches English exactly; the entry is translated
\* when it has no comment, is marked incomplete, or has a previous error.
NeedsTranslation(comment_status) ==
    \/ IsNone(comment_status)
    \/ Val(comment_status) = StatusIncomplete
    \/ startswith(Val(comment_status), StatusErrorPrefix)

ClassifyKey(key, english_value, target_entries, target_data_elements) ==
    LET has == key \in DOMAIN target_data_elements
        comment_status == IF has THEN get_comment_status(target_data_elements[key])
                          ELSE None
    IN  IF IsTechnicalKey(key) \/ key \in AlwaysCompleteKeys
        THEN [enqueue |-> FALSE, mark |-> has]
        ELSE IF comment_status = Some(StatusComplete)
        THEN NoElem
        ELSE IF IsPermanentError(comment_status)
        THEN NoElem
        ELSE IF key \notin DOMAIN target_entries
        THEN [enqueue |-> TRUE, mark |-> FALSE]
        ELSE IF AlreadyTranslated(target_entries[key], english_value)
        THEN [enqueue |-> FALSE, mark |-> has]
        ELSE IF NeedsTranslation(comment_status)
        THEN [enqueue |-> TRUE, mark |-> FALSE]
        ELSE NoElem

\* The keys of a work list: `untranslated` is a dict, here the sequence of
\* its items <<key, english_value>> in insertion order.
WorkKeys(untranslated) == {untranslated[n][1] : n \in 1..Len(untranslated)}

\* The work list (the items of `untranslated`, in en-US order) and the tree
\* with the statuses the pass has set.
find_untranslated_entries(english_entries, target_entries, target_data_elements) ==
    LET c(k) == ClassifyKey(k, english_entries[k], target_entries,
                            target_data_elements)
        enqueued == SelectSeq(KeyOrder,
                              LAMBDA k : k \in DOMAIN english_entries /\ c(k).enqueue)
    IN  [untranslated |->
            [n \in 1..Len(enqueued) |-> <<enqueued[n], english_entries[enqueued[n]]>>],
         elements |->
            [k \in DOMAIN target_data_elements |->
                IF k \in DOMAIN english_entries /\ c(k).mark
                THEN set_comment_status(target_data_elements[k], StatusComplete)
                ELSE target_data_elements[k]]]

\* ---------------------------------------------------------- update_resw_file
\* The status written without the value.
TranslatedEntryStatusOnly(data_elem, translated_text) ==
    set_comment_status(data_elem, StatusComplete)

\* Lines 346-349: the translation succeeded: the value and the status written.
TranslatedEntry(data_elem, translated_text) ==
    set_comment_status([data_elem EXCEPT !.value = translated_text], StatusComplete)

\* Every failure recorded as a first error.
FailureStatusFirstError(comment_status, error_msg) == StatusError(error_msg)

\* Lines 364-374: a regular translation failure: the status written, by the
\* status the entry has.
FailureStatus(comment_status, error_msg) ==
    IF ~IsNone(comment_status) /\ startswith(Val(comment_status), StatusErrorPrefix)
    THEN StatusErrorPermanent
    ELSE StatusError(error_msg)

\* No default status for an entry that en-US does not have.
DefaultStatusKnownKeys(name, data, english_entries, is_english_file) ==
    IF is_english_file
    THEN set_comment_status(data, StatusComplete)
    ELSE IF name \in DOMAIN english_entries
    THEN IF data.value = Get(english_entries, name, EmptyText)
         THEN set_comment_status(data, StatusIncomplete)
         ELSE set_comment_status(data, StatusComplete)
    ELSE data

\* Lines 401-420: an entry without a comment gets its default status.
DefaultStatus(name, data, english_entries, is_english_file) ==
    IF is_english_file
    THEN set_comment_status(data, StatusComplete)
    ELSE IF name \in DOMAIN english_entries
    THEN IF data.value = Get(english_entries, name, EmptyText)
         THEN set_comment_status(data, StatusIncomplete)
         ELSE set_comment_status(data, StatusComplete)
    ELSE set_comment_status(data, StatusIncomplete)

\* No text is kept untranslated as a technical term.
IsTechnicalTermNever(english_value) == FALSE

\* Lines 360 and 574: the value is "Tab" (technical term).
IsTechnicalTerm(english_value) == english_value = Tab

\* Lines 316-374, for one key of `translations`: the entry afterwards.
ProcessTranslation(tree, key, translated_value, translation_errors, english_entries) ==
    IF key \notin DOMAIN tree
    THEN Entry(IF ~IsNone(translated_value) /\ Truthy(Val(translated_value))
               THEN Val(translated_value)
               ELSE Get(english_entries, key, EmptyText),
               Some(IF IsNone(translated_value) \/ ~Truthy(Val(translated_value))
                    THEN StatusIncomplete ELSE StatusComplete))
    ELSE
    LET data_elem == tree[key]
        current_value == data_elem.value
        english_value == Get(english_entries, key, EmptyText)
    IN  IF current_value # english_value
        THEN set_comment_status(data_elem, StatusComplete)
        ELSE IF ~IsNone(translated_value) /\ Truthy(Val(translated_value))
        THEN TranslatedEntry(data_elem, Val(translated_value))
        ELSE IF IsNone(translated_value)
        THEN LET error_msg == Get(translation_errors, key, MsgDefault)
                 comment_status == get_comment_status(data_elem)
             IN  IF error_msg = MsgSame
                 THEN set_comment_status(data_elem, StatusComplete)
                 ELSE IF IsTechnicalTerm(english_value)
                 THEN set_comment_status(data_elem, StatusComplete)
                 ELSE set_comment_status(data_elem,
                                         FailureStatus(comment_status, error_msg))
        ELSE data_elem

\* No key is complete by its name alone.
IsAlwaysCompleteNever(name) == FALSE

\* Line 387: AppName, KB, MB, GB are always marked as complete.
IsAlwaysComplete(name) == name \in AlwaysCompleteKeys

\* A sweep that gives every entry its default status, whatever its marker.
SweepEntryReclassifies(name, data, english_entries, is_english_file) ==
    IF IsAlwaysComplete(name)
    THEN set_comment_status(data, StatusComplete)
    ELSE DefaultStatus(name, data, english_entries, is_english_file)

\* A sweep that looks again at the entries marked incomplete and marks them
\* complete.
SweepEntryRevisitsIncomplete(name, data, english_entries, is_english_file) ==
    LET comment_status == get_comment_status(data)
    IN  IF IsAlwaysComplete(name) \/ comment_status = Some(StatusIncomplete)
        THEN set_comment_status(data, StatusComplete)
        ELSE IF IsNone(comment_status)
        THEN DefaultStatus(name, data, english_entries, is_english_file)
        ELSE data

\* Lines 376-424, for one <data> element: the completion sweep.
SweepEntry(name, data, english_entries, is_english_file) ==
    LET comment_status == get_comment_status(data)
    IN  IF IsAlwaysComplete(name)
        THEN set_comment_status(data, StatusComplete)
        ELSE IF ~IsNone(comment_status)
                /\ (startswith(Val(comment_status), StatusComplete)
                    \/ startswith(Val(comment_status), StatusErrorPrefix))
        THEN data
        ELSE IF IsNone(comment_status)
        THEN DefaultStatus(name, data, english_entries, is_english_file)
        ELSE data

\* The file after update_resw_file(file, translations, translation_errors,
\* english_entries, is_english_file): the translations, then the sweep.
update_resw_file(tree, translations, translation_errors, english_entries, is_english_file) ==
    LET processed ==
            [k \in DOMAIN tree \cup DOMAIN translations |->
                IF k \in DOMAIN translations
                THEN ProcessTranslation(tree, k, translations[k], translation_errors,
                                        english_entries)
                ELSE tree[k]]
    IN  [k \in DOMAIN processed |->
            SweepEntry(k, processed[k], english_entries, is_english_file)]

\* The completion sweep alone, as main runs it at lines 472 and 513:
\* update_resw_file(file, {}, {}, english_entries, is_english_file).
Sweep(tree, english_entries, is_english_file) ==
    update_resw_file(tree, EmptyDict, EmptyDict, english_entries, is_english_file)

\* The marking of every entry of the store of an unsupported locale, on the
\* work list or not.
MarkUnsupportedAll(tree, untranslated, english_entries) ==
    [name \in DOMAIN tree |->
        IF tree[name].value # Get(english_entries, name, EmptyText)
        THEN set_comment_status(tree[name], StatusComplete)
        ELSE IF IsTechnicalTerm(Get(english_entries, name, EmptyText))
        THEN set_comment_status(tree[name], StatusComplete)
        ELSE set_comment_status(tree[name], StatusErrorPermanent)]

\* Lines 560-578: the marking of the work items of an unsupported locale.
MarkUnsupported(tree, untranslated, english_entries) ==
    [name \in DOMAIN tree |->
        IF name \in untranslated
        THEN IF tree[name].value # Get(english_entries, name, EmptyText)
             THEN set_comment_status(tree[name], StatusComplete)
             ELSE IF IsTechnicalTerm(Get(english_entries, name, EmptyText))
             THEN set_comment_status(tree[name], StatusComplete)
             ELSE set_comment_status(tree[name], StatusErrorPermanent)
        ELSE tree[name]]

\* text_clean: the text without a leading [HQ: ..] / [MT: ..] prefix (line 236).
\* A prefix is one element of a text, "[HQ]" or "[MT]".
StripPrefix(text) ==
    IF text # <<>> /\ Head(text) \in {"[HQ]", "[MT]"} THEN lstrip(Tail(text)) ELSE text

\* ------------------------------------------------------------ translate_text
\* What translator.translate raises: the class of the exception, and which of
\* the texts that translate_text looks for its message holds: "family" (one
\* of 'raise_Exception', 'Translator', 'object has no attribute', line 251),
\* "invalid" ('invalid destination language', line 268), "rate" (one of the
\* indicators of line 272).
Exceptions ==
    {[class |-> "AttributeError", message |-> {"family"}],
     [class |-> "AttributeError", message |-> {}],
     [class |-> "AttributeError", message |-> {"rate"}],
     [class |-> "Exception", message |-> {"rate"}],
     [class |-> "Exception", message |-> {"family"}],
     [class |-> "Exception", message |-> {}],
     [class |-> "Exception", message |-> {"invalid"}],
     [class |-> "Exception", message |-> {"invalid", "rate"}]}

\* Lines 248-251: a googletrans internal error.
IsKnownFault(e) == e.class = "AttributeError" /\ "family" \in e.message

\* Lines 265-270: the destination language is invalid.
IsInvalidLanguage(e) == e.class # "AttributeError" /\ "invalid" \in e.message

\* Every error of the except clause of line 265 taken for a rate limit.
IsRateLimitAlways(e) == e.class # "AttributeError" /\ "invalid" \notin e.message

\* Lines 265-272: a rate limit, by the indicators in the message.
IsRateLimit(e) ==
    e.class # "AttributeError" /\ "invalid" \notin e.message /\ "rate" \in e.message

\* A retry after every failed attempt.
MayRetryAlways(attempt) == TRUE

\* Lines 252 and 273: this was not the last attempt.
MayRetry(attempt) == attempt < max_retries - 1

\* The same wait before every retry.
wait_time_fixed(attempt) == 2

\* Lines 255 and 275: the seconds to wait before the next attempt.
wait_time(attempt) == (attempt + 1) * 2

\* ------------------------------------------- add_localization_entry.py
\* The <data> elements of a Resources.resw, in the order of the file: each
\* with its name attribute, its <value> text and its <comment> text.
Element(name, value, comment) == [name |-> name, value |-> value, comment |-> comment]

\* The elements of a store whose names are all different, in en-US order.
Elements(store) ==
    LET names == SelectSeq(KeyOrder, LAMBDA k : k \in DOMAIN store)
    IN  [n \in 1..Len(names) |->
            Element(names[n], store[names[n]].value, store[names[n]].comment)]

\* The store that parse_resw_file and update_resw_file read from the
\* elements: for a name that comes twice, the last element counts.
StoreOf(doc) ==
    [k \in {doc[n].name : n \in 1..Len(doc)} |->
        LET last == CHOOSE n \in 1..Len(doc) :
                       /\ doc[n].name = k
                       /\ \A m \in (n + 1)..Len(doc) : doc[m].name # k
        IN  Entry(doc[last].value, doc[last].comment)]

\* An add that does not look for the key.
KeyExistsNever(doc, key) == FALSE

\* Lines 43-46: a <data> element of the file has the key as its name.
KeyExists(doc, key) == \E n \in 1..Len(doc) : doc[n].name = key

\* Every new entry marked complete.
AddedStatusComplete(is_english) == StatusComplete

\* Line 59: the status of the new entry.
AddedStatus(is_english) == IF is_english THEN StatusComplete ELSE StatusIncomplete

MsgExists == "already exists"
MsgAdded == "Added successfully"

\* add_entry_to_resw(file_path, key, value, is_english): what it returns
\* (success, message) and the elements of the file afterwards.
add_entry_to_resw(doc, key, value, is_english) ==
    IF KeyExists(doc, key)
    THEN [success |-> FALSE, message |-> MsgExists, doc |-> doc]
    ELSE [success |-> TRUE, message |-> MsgAdded,
          doc |-> Append(doc, Element(key, value, Some(AddedStatus(is_english))))]

\* ---------------------------------------- remove_localization_entry.py
\* The name holds a double quote: the path f'.//data[@name="{entry_name}"]'
\* built from it is not a valid predicate and findall raises SyntaxError.
HasDoubleQuote(entry_name) == entry_name = QuotedKey

\* Lines 34-53, for one file: the elements afterwards and the number removed.
\* An exception leaves the file as it was (lines 52-53).
RemoveFromFile(doc, entry_name) ==
    IF HasDoubleQuote(entry_name)
    THEN [doc |-> doc, removed |-> 0]
    ELSE [doc |-> SelectSeq(doc, LAMBDA d : d.name # entry_name),
          removed |-> Cardinality({n \in 1..Len(doc) : doc[n].name = entry_name})]

RECURSIVE SumOver(_, _)
SumOver(f, S) ==
    IF S = {} THEN 0
    ELSE LET x == CHOOSE y \in S : TRUE IN f[x] + SumOver(f, S \ {x})

\* remove_entry(entry_name, strings_dir): the files afterwards and the
\* count it returns.
remove_entry(stores, entry_name) ==
    LET result == [l \in DOMAIN stores |->
                      RemoveFromFile(Elements(stores[l]), entry_name)]
    IN  [files |-> [l \in DOMAIN stores |-> StoreOf(result[l].doc)],
         removed_count |-> SumOver([l \in DOMAIN stores |-> result[l].removed],
                                   DOMAIN stores)]

\* No call of add_entry_to_resw or remove_entry yet.
NoEdit == [op |-> "none", n |-> 0]

\* ------------------------------------------------------------------- state
VARIABLES
    files,                \* locale |-> the entries of its Resources.resw
    pc,                   \* "idle", "locales" (top of the for loop of line 496), "translate"
    run,                  \* the number of runs of main() started
    english_entries,      \* main: name -> value of en-US, parsed at line 467
    translator,           \* main: whether a Translator is available
    lang,                 \* main: index of lang_code in languages
    untranslated,         \* main: the keys of the work list, in order
    i,                    \* main: 1-based index of the work item (line 599)
    attempt,              \* translate_text: the attempt index (line 239)
    translations,         \* main: key -> translated value or None, not yet saved
    translation_errors,   \* main: key -> error message, not yet saved
    consecutive_failures, \* main: line 592
    slept,                \* the time.sleep() calls of the last step, in ms
    invoked,              \* the last step called translator.translate
    raised,               \* what that call raised, None when it returned
    waits,                \* translate_text: its waits so far in this call, in s
    invalidSeen,          \* InvalidDestinationLanguageError was raised for this locale
    called,               \* locale |-> keys translator.translate was called for, this run
    outcome,              \* locale |-> key |-> what this run did with the work item
    returned,             \* locale |-> key |-> the text translate returned, this run
    history,              \* locale |-> key |-> the outcomes of its attempts, over the runs
    localeState,          \* locale |-> "pending", "done", "skipped-invalid-language"
    pre,                  \* files when the run started
    init0,                \* files in the initial state
    edit                  \* the last call of add_entry_to_resw or remove_entry

vars ==
    <<files, pc, run, english_entries, translator, lang, untranslated, i, attempt,
      translations, translation_errors, consecutive_failures, slept, invoked,
      raised, waits, invalidSeen, called, outcome, returned, history, localeState, pre, init0, edit>>

Range(seq) == {seq[n] : n \in 1..Len(seq)}

\* The locale directories next to en-US.
Locales == DOMAIN files \ {EnUS}

\* languages = sorted(p.name for p in base_dir.iterdir() if p.name != "en-US")
languages == SelectSeq(LocaleOrder, LAMBDA l : l \in Locales)

lang_code == languages[lang]
key == untranslated[i][1]
english_value == untranslated[i][2]

\* --------------------------------------------------------------- main, start
\* Lines 455-494: parse en-US, give en-US its comments, find the languages,
\* initialise the translator.
MainStart ==
    /\ pc = "idle"
    /\ run < MaxRuns
    /\ english_entries' = parse_resw_file(files[EnUS])
    /\ files' = [files EXCEPT ![EnUS] =
                    update_resw_file(@, EmptyDict, EmptyDict, english_entries', TRUE)]
    /\ translator' \in BOOLEAN
    /\ lang' = 1
    /\ pc' = "locales"
    /\ run' = run + 1
    /\ slept' = <<>>
    /\ invoked' = FALSE
    /\ raised' = None
    /\ waits' = <<>>
    /\ invalidSeen' = FALSE
    /\ called' = [l \in Locales |-> {}]
    /\ outcome' = [l \in Locales |-> [k \in Keys |-> "none"]]
    /\ returned' = [l \in Locales |-> [k \in Keys |-> None]]
    /\ localeState' = [l \in Locales |-> "pending"]
    /\ pre' = files
    /\ UNCHANGED <<untranslated, i, attempt, translations, translation_errors,
                   consecutive_failures, history, init0, edit>>

\* Lines 496-587: one language up to the translation loop: the first sweep,
\* the classification and its save, and the whole of a language that has no
\* work or is not supported.
ProcessLanguage ==
    /\ pc = "locales"
    /\ lang <= Len(languages)
    /\ LET swept == update_resw_file(files[lang_code], EmptyDict, EmptyDict,
                                     english_entries, FALSE)
           found == find_untranslated_entries(english_entries, parse_resw_file(swept),
                                              swept)
           work == found.untranslated
           target_lang_code == LANG_CODE_MAP[lang_code]
       IN  IF work = <<>>
           THEN /\ files' = [files EXCEPT ![lang_code] = found.elements]
                /\ localeState' = [localeState EXCEPT ![lang_code] = "done"]
                /\ lang' = lang + 1
                /\ UNCHANGED <<pc, untranslated, outcome>>
           ELSE IF target_lang_code = "en" /\ lang_code # EnUS
           THEN /\ files' = [files EXCEPT ![lang_code] =
                                MarkUnsupported(found.elements, WorkKeys(work),
                                                english_entries)]
                /\ localeState' = [localeState EXCEPT
                                      ![lang_code] = "skipped-invalid-language"]
                /\ outcome' = [outcome EXCEPT ![lang_code] =
                                  [k \in Keys |-> IF k \in WorkKeys(work)
                                                  THEN "unsupported" ELSE @[k]]]
                /\ lang' = lang + 1
                /\ UNCHANGED <<pc, untranslated>>
           ELSE /\ files' = [files EXCEPT ![lang_code] = found.elements]
                /\ untranslated' = work
                /\ pc' = "translate"
                /\ UNCHANGED <<lang, localeState, outcome>>
    /\ i' = 1
    /\ attempt' = 0
    /\ translations' = EmptyDict
    /\ translation_errors' = EmptyDict
    /\ consecutive_failures' = 0
    /\ slept' = <<>>
    /\ invoked' = FALSE
    /\ raised' = None
    /\ waits' = <<>>
    /\ invalidSeen' = FALSE
    /\ UNCHANGED <<run, english_entries, translator, called, returned, history, pre,
                   init0, edit>>

\* main returning once the first language is done with.
MainEndAfterFirst ==
    /\ pc = "locales"
    /\ lang > 1
    /\ pc' = "idle"
    /\ slept' = <<>>
    /\ invoked' = FALSE
    /\ raised' = None
    /\ waits' = <<>>
    /\ UNCHANGED <<files, run, english_entries, translator, lang, untranslated, i,
                   attempt, translations, translation_errors, consecutive_failures,
                   invalidSeen, called, outcome, returned, history, localeState, pre,
                   init0, edit>>

\* The for loop of line 496 is exhausted: main returns.
MainEnd ==
    /\ pc = "locales"
    /\ lang > Len(languages)
    /\ pc' = "idle"
    /\ slept' = <<>>
    /\ invoked' = FALSE
    /\ raised' = None
    /\ waits' = <<>>
    /\ UNCHANGED <<files, run, english_entries, translator, lang, untranslated, i,
                   attempt, translations, translation_errors, consecutive_failures,
                   invalidSeen, called, outcome, returned, history, localeState, pre,
                   init0, edit>>

\* ------------------------------------------------------ main, the item loop
\* What translator.translate may return for `text` (result.text): a
\* translation, the text itself, the text with a space before it, nothing.
GatewayTexts(text) == {Salut, text, <<" ">> \o text, EmptyText}

\* One save, after the last item.
ShouldSaveLastOnly == i = Len(untranslated)

\* Lines 675-687 and the end of the loop body: the save of every BATCH_SIZE
\* items and of the last one, then the next item, or the summary and the
\* pause of lines 689-702 after the last one.
ShouldSave == (i % BATCH_SIZE = 0) \/ (i = Len(untranslated))

ItemDone(tr, errs, sleeps) ==
    LET save == ShouldSave /\ (tr # EmptyDict \/ errs # EmptyDict)
        last == i = Len(untranslated)
    IN  /\ files' = IF save
                    THEN [files EXCEPT ![lang_code] =
                             update_resw_file(@, tr, errs, english_entries, FALSE)]
                    ELSE files
        /\ translations' = IF save THEN EmptyDict ELSE tr
        /\ translation_errors' = IF save THEN EmptyDict ELSE errs
        /\ attempt' = 0
        /\ waits' = <<>>
        /\ IF last
           THEN /\ pc' = "locales"
                /\ lang' = lang + 1
                /\ localeState' = [localeState EXCEPT ![lang_code] = "done"]
                /\ slept' = sleeps \o <<1000>>
                /\ UNCHANGED i
           ELSE /\ i' = i + 1
                /\ slept' = sleeps
                /\ UNCHANGED <<pc, lang, localeState>>

\* No number of failures in a row brings the longer pause.
ThrottleNever(failures) == FALSE

\* Line 648: many consecutive failures.
ThrottleReached(failures) == failures >= 5

\* A failed item that ends the pass over the language: what is accumulated
\* is saved and the loop is left.
ItemFailedBreaks ==
    /\ consecutive_failures' = consecutive_failures + 1
    /\ files' = [files EXCEPT ![lang_code] =
                    update_resw_file(@, Put(translations, key, None),
                                     Put(translation_errors, key, MsgNone),
                                     english_entries, FALSE)]
    /\ translations' = EmptyDict
    /\ translation_errors' = EmptyDict
    /\ attempt' = 0
    /\ waits' = <<>>
    /\ localeState' = [localeState EXCEPT ![lang_code] = "done"]
    /\ pc' = "locales"
    /\ lang' = lang + 1
    /\ i' = i
    /\ slept' = <<200, 1000>>
    /\ outcome' = [outcome EXCEPT ![lang_code][key] = "failed"]
    /\ history' = [history EXCEPT ![lang_code][key] = Append(@, "failed")]
    /\ UNCHANGED returned

\* Lines 640-653: translate_text returned None.
ItemFailed ==
    /\ consecutive_failures' = IF ThrottleReached(consecutive_failures + 1) THEN 0
                               ELSE consecutive_failures + 1
    /\ ItemDone(Put(translations, key, None), Put(translation_errors, key, MsgNone),
                IF ThrottleReached(consecutive_failures + 1) THEN <<2000>>
                ELSE <<200>>)
    /\ outcome' = [outcome EXCEPT ![lang_code][key] = "failed"]
    /\ history' = [history EXCEPT ![lang_code][key] = Append(@, "failed")]
    /\ UNCHANGED returned

\* translate_text, one pass of the loop of line 239: translator.translate
\* returns result.text; then lines 654-668 of main.
TranslateReturns ==
    /\ pc = "translate"
    /\ translator
    /\ \E translated \in GatewayTexts(StripPrefix(english_value)) :
          /\ consecutive_failures' = 0
          /\ returned' = [returned EXCEPT ![lang_code][key] = Some(translated)]
          /\ IF strip(translated) = strip(english_value)
             THEN /\ ItemDone(Put(translations, key, None),
                              Put(translation_errors, key, MsgSame), <<200>>)
                  /\ outcome' = [outcome EXCEPT ![lang_code][key] = "same"]
             ELSE /\ ItemDone(Put(translations, key, Some(translated)),
                              translation_errors, <<200>>)
                  /\ outcome' = [outcome EXCEPT ![lang_code][key] =
                                    IF Truthy(translated) THEN "translated"
                                    ELSE "empty"]
    /\ invoked' = TRUE
    /\ raised' = None
    /\ called' = [called EXCEPT ![lang_code] = @ \cup {key}]
    /\ history' = [history EXCEPT ![lang_code][key] = Append(@, "returned")]
    /\ UNCHANGED <<run, english_entries, translator, untranslated, invalidSeen, pre,
                   init0, edit>>

\* translate_text, one pass of the loop: translator.translate raises one of
\* the retried errors (an AttributeError of the known family, or an
\* exception with a rate-limit indicator): wait and retry, or give up after
\* the last attempt.
TranslateRetryable ==
    /\ pc = "translate"
    /\ translator
    /\ IF MayRetry(attempt)
       THEN /\ attempt' = attempt + 1
            /\ waits' = Append(waits, wait_time(attempt))
            /\ slept' = <<wait_time(attempt) * 1000>>
            /\ UNCHANGED <<files, pc, lang, i, translations, translation_errors,
                           consecutive_failures, outcome, returned, history,
                           localeState>>
       ELSE ItemFailed
    /\ \E e \in Exceptions :
          /\ IsKnownFault(e) \/ IsRateLimit(e)
          /\ raised' = Some(e)
    /\ invoked' = TRUE
    /\ called' = [called EXCEPT ![lang_code] = @ \cup {key}]
    /\ UNCHANGED <<run, english_entries, translator, untranslated, invalidSeen, pre,
                   init0, edit>>

\* translate_text, one pass of the loop: translator.translate raises any
\* other error (lines 262-264 and 282-285): no retry.
TranslateError ==
    /\ pc = "translate"
    /\ translator
    /\ ItemFailed
    /\ \E e \in Exceptions :
          /\ ~IsKnownFault(e) /\ ~IsInvalidLanguage(e) /\ ~IsRateLimit(e)
          /\ raised' = Some(e)
    /\ invoked' = TRUE
    /\ called' = [called EXCEPT ![lang_code] = @ \cup {key}]
    /\ UNCHANGED <<run, english_entries, translator, untranslated, invalidSeen, pre,
                   init0, edit>>

\* The item loop going on with the next item instead of the break.
ContinueItemLoop ==
    IF i < Len(untranslated)
    THEN /\ pc' = pc
         /\ lang' = lang
         /\ i' = i + 1
         /\ slept' = <<>>
    ELSE /\ pc' = "locales"
         /\ lang' = lang + 1
         /\ i' = i
         /\ slept' = <<1000>>

\* Line 638 and lines 689-702: the break out of the item loop, the summary
\* and the pause; the for loop of line 496 goes on with the next language.
BreakItemLoop ==
    /\ pc' = "locales"
    /\ lang' = lang + 1
    /\ i' = i
    /\ slept' = <<1000>>

\* translate_text raises InvalidDestinationLanguageError (lines 268-270);
\* main, lines 605-638: save what is accumulated, record the failing item,
\* record the remaining items, leave the loop.
TranslateInvalidLanguage ==
    /\ pc = "translate"
    /\ translator
    /\ waits' = <<>>
    /\ LET flushed == IF translations # EmptyDict \/ translation_errors # EmptyDict
                      THEN update_resw_file(files[lang_code], translations,
                                            translation_errors, english_entries, FALSE)
                      ELSE files[lang_code]
           current == update_resw_file(flushed, Put(EmptyDict, key, None),
                                       Put(EmptyDict, key, MsgInvalid),
                                       english_entries, FALSE)
           remaining_entries ==
               {untranslated[n][1] : n \in (i + 1)..Len(untranslated)}
           marked == update_resw_file(current,
                                      [k \in remaining_entries |-> None],
                                      [k \in remaining_entries |-> MsgInvalid],
                                      english_entries, FALSE)
       IN  /\ files' = [files EXCEPT ![lang_code] = marked]
           /\ outcome' = [outcome EXCEPT ![lang_code] =
                             [k \in Keys |-> IF k = key THEN "invalid"
                                             ELSE IF k \in remaining_entries
                                             THEN "remaining" ELSE @[k]]]
           /\ history' = [history EXCEPT ![lang_code][key] = Append(@, "invalid")]
    /\ translations' = EmptyDict
    /\ translation_errors' = EmptyDict
    /\ localeState' = [localeState EXCEPT ![lang_code] = "skipped-invalid-language"]
    /\ BreakItemLoop
    /\ attempt' = 0
    /\ invoked' = TRUE
    /\ invalidSeen' = TRUE
    /\ called' = [called EXCEPT ![lang_code] = @ \cup {key}]
    /\ \E e \in Exceptions : IsInvalidLanguage(e) /\ raised' = Some(e)
    /\ UNCHANGED <<run, english_entries, translator, untranslated,
                   consecutive_failures, returned, pre, init0, edit>>

\* Lines 669-673: no translator; the item is only reported, and saved as
\* "Translator not available".
NoTranslator ==
    /\ pc = "translate"
    /\ ~translator
    /\ ItemDone(Put(translations, key, None),
                Put(translation_errors, key, MsgNoTranslator), <<>>)
    /\ outcome' = [outcome EXCEPT ![lang_code][key] = "no-translator"]
    /\ invoked' = FALSE
    /\ raised' = None
    /\ UNCHANGED <<run, english_entries, translator, untranslated,
                   consecutive_failures, invalidSeen, called, returned, history, pre,
                   init0, edit>>

\* ------------------------------------------------------------ initial state
\* The value en-US gives each key.
RefValue ==
    [k \in Keys |->
        CASE k = "AppName" -> Grex
          [] k = "URLPresetButton.Content" -> Url
          [] k = "Greeting" -> Hi
          [] k = "Farewell" -> Bye
          [] k = "TabItem" -> Tab
          [] k \in {"KBComboBoxItem.Content", "MBComboBoxItem.Content",
                    "GBComboBoxItem.Content"} -> Kb
          [] OTHER -> Xx]

CommentChoices ==
    {None, Some(StatusComplete), Some(StatusIncomplete), Some(StatusError(MsgNone)),
     Some(StatusErrorPermanent)}

\* An entry with the en-US value or with a translation, under any status.
EntryChoices(k) == {Entry(v, c) : v \in {RefValue[k], Salut}, c \in CommentChoices}

\* An entry that shows the en-US value, under any status.
WorkChoices(k) == {Entry(RefValue[k], c) : c \in CommentChoices}

BaseKeys == {"AppName", "Greeting", "URLPresetButton.Content", "Farewell"}

EnglishStore(ks, c) == [k \in ks |-> Entry(RefValue[k], c)]

\* A target store in step with en-US: one entry to translate, the rest done.
BaseStore ==
    [k \in BaseKeys |->
        IF k = "Greeting" THEN Entry(Hi, Some(StatusIncomplete))
        ELSE IF k = "Farewell" THEN Entry(Salut, Some(StatusComplete))
        ELSE Entry(RefValue[k], Some(StatusComplete))]

Without(store, k) == [x \in DOMAIN store \ {k} |-> store[x]]

\* The target stores a run starts from: BaseStore with one key, or the two
\* work keys, in any state an earlier run or a hand edit can leave.
OneKeyVaried(k) ==
    {Put(BaseStore, k, e) : e \in EntryChoices(k)} \cup {Without(BaseStore, k)}

TwoWorkKeys ==
    LET G == {Put(BaseStore, "Greeting", e) : e \in EntryChoices("Greeting")}
                \cup {Without(BaseStore, "Greeting")}
    IN  UNION {{Put(g, "Farewell", e) : e \in WorkChoices("Farewell")}
                  \cup {Without(g, "Farewell")} : g \in G}

InitialStores ==
    [english : {EnglishStore(BaseKeys, Some(StatusComplete))},
     target : OneKeyVaried("Greeting") \cup OneKeyVaried("AppName")
                \cup OneKeyVaried("URLPresetButton.Content") \cup TwoWorkKeys
                \cup {Put(BaseStore, "Legacy", Entry(Xx, c)) : c \in CommentChoices}]
    \cup
    [english : {EnglishStore(BaseKeys, None)},
     target : {BaseStore, Put(BaseStore, "AppName", Entry(Grex, None))}]
    \cup
    [english : {EnglishStore(BaseKeys \cup {"TabItem"}, Some(StatusComplete))},
     target : OneKeyVaried("TabItem")]
    \cup
    UNION {[english : {EnglishStore(BaseKeys \cup {t}, Some(StatusComplete))},
            target : {Put(BaseStore, t, e) : e \in EntryChoices(t)}] :
              t \in {"KBComboBoxItem.Content", "MBComboBoxItem.Content",
                     "GBComboBoxItem.Content"}}
    \cup
    UNION {[english : {EnglishStore(BaseKeys \ {t}, Some(StatusComplete))},
            target : {Put(BaseStore, t, Entry(RefValue[t], c)) :
                         c \in {None, Some(StatusIncomplete)}}] :
              t \in {"AppName", "URLPresetButton.Content"}}

\* The state before main() runs, but for the stores and the runs behind.
InitRest ==
    /\ pc = "idle"
    /\ english_entries = EmptyDict
    /\ translator = FALSE
    /\ lang = 1
    /\ untranslated = <<>>
    /\ i = 1
    /\ attempt = 0
    /\ translations = EmptyDict
    /\ translation_errors = EmptyDict
    /\ consecutive_failures = 0
    /\ slept = <<>>
    /\ invoked = FALSE
    /\ raised = None
    /\ waits = <<>>
    /\ invalidSeen = FALSE
    /\ called = [l \in Locales |-> {}]
    /\ outcome = [l \in Locales |-> [k \in Keys |-> "none"]]
    /\ returned = [l \in Locales |-> [k \in Keys |-> None]]
    /\ history = [l \in Locales |-> [k \in Keys |-> <<>>]]
    /\ localeState = [l \in Locales |-> "pending"]
    /\ pre = files
    /\ init0 = files
    /\ edit = NoEdit

Init ==
    /\ \E s \in InitialStores :
          files = [l \in {EnUS, "fj-FJ", "fr-FR"} |-> IF l = EnUS THEN s.english
                                                    ELSE s.target]
    /\ run = 0
    /\ InitRest

Next ==
    \/ MainStart
    \/ ProcessLanguage
    \/ MainEnd
    \/ TranslateReturns
    \/ TranslateRetryable
    \/ TranslateError
    \/ TranslateInvalidLanguage
    \/ NoTranslator

Spec == Init /\ [][Next]_vars

\* ------------------------------------------------------------ the long pass
\* One run over fr-FR with six work items, more than BATCH_SIZE: three keys
\* that the store lacks and three that it holds with the en-US value.
PassKeys == {"AppName", "Greeting", "Farewell", "Open", "Save", "Close", "Help"}

PassStore ==
    [k \in {"AppName", "Farewell", "Save", "Help"} |->
        Entry(RefValue[k], Some(IF k = "AppName" THEN StatusComplete
                                ELSE StatusIncomplete))]

InitPass ==
    /\ files = [l \in {EnUS, "fr-FR"} |->
                   IF l = EnUS THEN EnglishStore(PassKeys, Some(StatusComplete))
                   ELSE PassStore]
    /\ run = MaxRuns - 1
    /\ InitRest

\* translator.translate raises a retryable failure for an item that has had
\* fewer than PassRetries of them.
PassRetryable == attempt < PassRetries /\ TranslateRetryable

NextPass ==
    \/ MainStart
    \/ ProcessLanguage
    \/ MainEnd
    \/ TranslateReturns
    \/ PassRetryable
    \/ TranslateError
    \/ TranslateInvalidLanguage
    \/ NoTranslator

SpecPass == InitPass /\ [][NextPass]_vars

\* --------------------------------------------------------- several locales
\* Three locale directories: de-DE and fr-FR, which translator.translate
\* serves, with fj-FJ, which LANG_CODE_MAP maps to 'en', between them.
\* de-DE has one or two work items, the others one.  One run is followed.
InitLocales ==
    /\ \E first \in {BaseStore, Without(BaseStore, "Farewell")} :
          files = [l \in {EnUS, "de-DE", "fj-FJ", "fr-FR"} |->
                      IF l = EnUS THEN EnglishStore(BaseKeys, Some(StatusComplete))
                      ELSE IF l = "de-DE" THEN first
                      ELSE BaseStore]
    /\ run = MaxRuns - 1
    /\ InitRest

\* A step of main(), once it has been started: the script runs on for as long
\* as each call of translator.translate returns or raises.
RunStep ==
    \/ ProcessLanguage
    \/ MainEnd
    \/ TranslateReturns
    \/ TranslateRetryable
    \/ TranslateError
    \/ TranslateInvalidLanguage
    \/ NoTranslator

SpecLocales == InitLocales /\ [][Next]_vars /\ WF_vars(RunStep)

\* ------------------------------------------------- the entries added and removed
\* The command-line tools are run one after the other, and not while
\* translate_remaining_entries.py runs.  MaxEdits bounds the calls followed.
EditKeys == {"Greeting", "Open", QuotedKey}
EditValues == {Hi, Xx}

\* add_localization_entry.py, main, lines 140-149: add_entry_to_resw for the
\* Resources.resw of one language directory.
AddEntry ==
    /\ pc = "idle"
    /\ edit.n < MaxEdits
    /\ \E l \in DOMAIN files, k \in EditKeys, v \in EditValues :
          LET is_english == l = EnUS
              r == add_entry_to_resw(Elements(files[l]), k, v, is_english)
          IN  /\ files' = [files EXCEPT ![l] = StoreOf(r.doc)]
              /\ edit' = [op |-> "add", n |-> edit.n + 1, locale |-> l, key |-> k,
                          value |-> v, success |-> r.success, message |-> r.message,
                          doc |-> r.doc, before |-> files]
    /\ UNCHANGED <<pc, run, english_entries, translator, lang, untranslated, i,
                   attempt, translations, translation_errors, consecutive_failures,
                   slept, invoked, raised, waits, invalidSeen, called, outcome,
                   returned, history, localeState, pre, init0>>

\* remove_localization_entry.py, main, line 76: remove_entry over all the
\* Resources.resw files.
RemoveEntry ==
    /\ pc = "idle"
    /\ edit.n < MaxEdits
    /\ \E entry_name \in EditKeys :
          LET r == remove_entry(files, entry_name)
          IN  /\ files' = r.files
              /\ edit' = [op |-> "remove", n |-> edit.n + 1, key |-> entry_name,
                          removed_count |-> r.removed_count, before |-> files]
    /\ UNCHANGED <<pc, run, english_entries, translator, lang, untranslated, i,
                   attempt, translations, translation_errors, consecutive_failures,
                   slept, invoked, raised, waits, invalidSeen, called, outcome,
                   returned, history, localeState, pre, init0>>

\* en-US with two entries, and two target stores: one holds Greeting with a
\* translation and a permanent error, the other may lack it.
InitEdit ==
    /\ \E second \in {BaseStore, Without(BaseStore, "Greeting")} :
          files = [l \in {EnUS, "de-DE", "fr-FR"} |->
                      IF l = EnUS
                      THEN EnglishStore({"AppName", "Greeting"}, Some(StatusComplete))
                      ELSE IF l = "de-DE"
                      THEN Put(BaseStore, "Greeting",
                               Entry(Salut, Some(StatusErrorPermanent)))
                      ELSE second]
    /\ run = 0
    /\ InitRest

NextEdit ==
    \/ AddEntry
    \/ RemoveEntry

SpecEdit == InitEdit /\ [][NextEdit]_vars

\* --------------------------------------------- runs with entries added between
\* Runs of translate_remaining_entries.py with calls of add_entry_to_resw
\* before, between and after them.  The target stores hold Greeting and
\* TabItem with the en-US value or a translation, complete or not.
AutoStores ==
    {[k \in BaseKeys \cup {"TabItem"} |->
         IF k = "Greeting" THEN c[1] ELSE IF k = "TabItem" THEN c[2]
         ELSE Entry(RefValue[k], Some(StatusComplete))] :
       c \in {<<Entry(Hi, Some(StatusComplete)), Entry(Tab, Some(StatusIncomplete))>>,
              <<Entry(Salut, None), Entry(Tab, Some(StatusIncomplete))>>,
              <<Entry(Hi, Some(StatusIncomplete)), Entry(Tab, Some(StatusComplete))>>}}

InitAuto ==
    /\ \E target \in AutoStores :
          files = [l \in {EnUS, "fj-FJ", "fr-FR"} |->
                      IF l = EnUS
                      THEN EnglishStore(BaseKeys \cup {"TabItem"}, Some(StatusComplete))
                      ELSE target]
    /\ run = MaxRuns - 2
    /\ InitRest

\* add_entry_to_resw is called for the AutoEdits-th time at most.
AutoAdd == edit.n < AutoEdits /\ AddEntry /\ edit'.value = Xx /\ edit'.key # QuotedKey

NextAuto ==
    \/ MainStart
    \/ ProcessLanguage
    \/ MainEnd
    \/ TranslateReturns
    \/ TranslateRetryable
    \/ TranslateError
    \/ TranslateInvalidLanguage
    \/ NoTranslator
    \/ AutoAdd

SpecAuto == InitAuto /\ [][NextAuto]_vars

\* ------------------------------------------------------------------ claims
FR == "fr-FR"

\* The run has finished with locale l.
Ended(l) == localeState[l] # "pending"

IsComplete(e) == e.comment = Some(StatusComplete)
IsErrorPermanent(e) == e.comment = Some(StatusErrorPermanent)

\* A stored error(x) that is not the permanent one.
IsPlainError(e) ==
    /\ ~IsNone(e.comment)
    /\ startswith(Val(e.comment), StatusErrorPrefix)
    /\ e.comment # Some(StatusErrorPermanent)

\* C1: after the run over a target store, every entry whose key is in the
\* reference store and whose value differs from the reference value has
\* status complete, whatever its status was before.
C1_DivergencePrecedence ==
    \A l \in Locales : \A k \in DOMAIN files[l] \cap DOMAIN english_entries :
        (Ended(l) /\ files[l][k].value # english_entries[k])
            => IsComplete(files[l][k])

\* C2: when the Gateway signals an invalid destination language, the failing
\* entry and every remaining work item end with status error-permanent.
C2_InvalidLanguageMarking ==
    \A l \in Locales : \A k \in Keys :
        outcome[l][k] \in {"invalid", "remaining"}
            => k \in DOMAIN files[l] /\ IsErrorPermanent(files[l][k])

\* C3: once translate_text has raised InvalidDestinationLanguageError for a
\* locale, no step calls translator.translate until the next locale is begun.
C3_NoCallAfterInvalidLanguage == [][invalidSeen => ~invoked']_vars

C3_Witness ==
    /\ invalidSeen
    /\ \E k \in Keys : outcome[FR][k] = "remaining" /\ k \notin called[FR]

\* C4, as claimed: an entry with a stored plain error and the reference value
\* whose attempt fails again ends the run with status error-permanent.
C4_TwoStrikes ==
    \A l \in Locales : \A k \in DOMAIN pre[l] \cap DOMAIN english_entries :
        (/\ Ended(l)
         /\ IsPlainError(pre[l][k])
         /\ pre[l][k].value = english_entries[k]
         /\ outcome[l][k] \in {"failed", "invalid"})
            => IsErrorPermanent(files[l][k])

\* C4, amended: the same, for an entry whose reference value is not 'Tab';
\* with the reference value 'Tab' the entry ends complete.
C4_TwoStrikesExceptTab ==
    \A l \in Locales : \A k \in DOMAIN pre[l] \cap DOMAIN english_entries :
        (/\ Ended(l)
         /\ IsPlainError(pre[l][k])
         /\ pre[l][k].value = english_entries[k]
         /\ outcome[l][k] \in {"failed", "invalid"})
            => IF english_entries[k] = Tab
               THEN IsComplete(files[l][k])
               ELSE IsErrorPermanent(files[l][k])

C4_Witness ==
    /\ Ended(FR)
    /\ "Greeting" \in DOMAIN pre[FR]
    /\ pre[FR]["Greeting"] = Entry(Hi, Some(StatusError(MsgNone)))
    /\ outcome[FR]["Greeting"] = "failed"
    /\ IsErrorPermanent(files[FR]["Greeting"])

\* C5: a technical key is never on the work list, translator.translate is
\* never called for it, and every target store that holds it has it with
\* status complete when the run has finished with the store.
C5_TechnicalKeyImmunity ==
    \A k \in TECHNICAL_KEYS :
        /\ k \notin WorkKeys(untranslated)
        /\ \A l \in Locales :
              /\ outcome[l][k] = "none"
              /\ k \notin called[l]
              /\ (Ended(l) /\ k \in DOMAIN files[l]) => IsComplete(files[l][k])

\* The same for the technical keys that en-US holds, the keys that the loop of
\* find_untranslated_entries visits (lines 169-175).
TechnicalKeyImmunityInReference ==
    \A k \in TECHNICAL_KEYS :
        /\ k \notin WorkKeys(untranslated)
        /\ \A l \in Locales :
              /\ outcome[l][k] = "none"
              /\ k \notin called[l]
              /\ (Ended(l) /\ k \in DOMAIN english_entries /\ k \in DOMAIN files[l])
                    => IsComplete(files[l][k])

\* C6: an entry that is complete or error-permanent when a run starts has
\* the same value at every later point of that run.
C6_FinalValuesKept ==
    \A l \in Locales : \A k \in DOMAIN pre[l] :
        (IsComplete(pre[l][k]) \/ IsErrorPermanent(pre[l][k]))
            => k \in DOMAIN files[l] /\ files[l][k].value = pre[l][k].value

C6_Witness ==
    /\ pc = "idle"
    /\ run > 0
    /\ "Greeting" \in DOMAIN pre[FR]
    /\ pre[FR]["Greeting"] = Entry(Hi, Some(StatusErrorPermanent))
    /\ files[FR]["Greeting"].value = Hi
    /\ outcome[FR]["Farewell"] = "translated"

\* C7: for a reference key whose target value differs from the reference
\* value when the run starts, translator.translate is never called, the key
\* is never a work item, and the value stays as it was.
C7_TranslationsNotOverwritten ==
    \A l \in Locales : \A k \in DOMAIN pre[l] \cap DOMAIN english_entries :
        (run > 0 /\ pre[l][k].value # english_entries[k])
            => /\ k \notin called[l]
               /\ outcome[l][k] = "none"
               /\ k \in DOMAIN files[l]
               /\ files[l][k].value = pre[l][k].value

C7_Witness ==
    /\ Ended(FR)
    /\ "Greeting" \in DOMAIN pre[FR]
    /\ pre[FR]["Greeting"] = Entry(Salut, None)
    /\ files[FR]["Greeting"] = Entry(Salut, Some(StatusComplete))
    /\ outcome[FR]["Farewell"] = "translated"

\* C8: when a run has finished with a non-reference store, every entry of
\* the store has a status marker that is not empty.
C8_StatusCompleteness ==
    \A l \in Locales : \A k \in DOMAIN files[l] :
        Ended(l) => ~IsNone(files[l][k].comment) /\ Val(files[l][k].comment) # <<>>

\* The store had an entry without a marker, the work list was empty and no
\* translation call was made.
C8_Witness ==
    /\ localeState[FR] = "done"
    /\ called[FR] = {}
    /\ \A k \in Keys : outcome[FR][k] = "none"
    /\ \E k \in DOMAIN pre[FR] : IsNone(pre[FR][k].comment)

C10_MissingKeyTwoFailures ==
    \A l \in Locales : \A k \in DOMAIN english_entries :
        (/\ Ended(l)
         /\ k \notin DOMAIN init0[l]
         /\ history[l][k] = <<"failed", "failed">>)
            => /\ k \in DOMAIN files[l]
               /\ files[l][k] = Entry(english_entries[k], Some(StatusErrorPermanent))

\* C11: every work item whose translation attempt failed ends the run with an
\* error status that carries a reason: error(reason) or error-permanent.
C11_NoSilentFailure ==
    \A l \in Locales : \A k \in Keys :
        (Ended(l) /\ outcome[l][k] = "failed")
            => /\ k \in DOMAIN files[l]
               /\ IsPlainError(files[l][k]) \/ IsErrorPermanent(files[l][k])

\* C13: when translator.translate returns the text it was given, the entry
\* ends the run with the reference value and status complete, whether it
\* existed before the run or was created by it.
C13_IdenticalTranslation ==
    \A l \in Locales : \A k \in DOMAIN english_entries :
        (Ended(l) /\ returned[l][k] = Some(english_entries[k]))
            => /\ k \in DOMAIN files[l]
               /\ files[l][k] = Entry(english_entries[k], Some(StatusComplete))

\* The same for the entries that existed when the run started.
IdenticalTranslationOfExistingEntry ==
    \A l \in Locales : \A k \in DOMAIN english_entries \cap DOMAIN pre[l] :
        (Ended(l) /\ returned[l][k] = Some(english_entries[k]))
            => files[l][k] = Entry(english_entries[k], Some(StatusComplete))

\* The work list the classifier makes of store t against the en-US entries ee.
WorkList(ee, t) == find_untranslated_entries(ee, parse_resw_file(t), t).untranslated

\* C12: for the reference store and every target store, the work list is
\* exactly the reference keys outside the technical keys that the target
\* lacks, or holds with the reference value under a status that is missing,
\* incomplete or a non-permanent error; it names no key twice and every
\* item carries the reference value.  It is the list main starts a pass with.
C12_WorkListCorrectness ==
    LET ee == parse_resw_file(files[EnUS])
    IN  /\ (pc = "translate" /\ i = 1 /\ attempt = 0)
              => untranslated = WorkList(english_entries, files[lang_code])
        /\ \A l \in Locales :
           LET t == files[l]
               work == WorkList(ee, t)
           IN  /\ WorkKeys(work) =
                     {k \in DOMAIN ee \ TECHNICAL_KEYS :
                         \/ k \notin DOMAIN t
                         \/ /\ t[k].value = ee[k]
                            /\ \/ IsNone(t[k].comment)
                               \/ t[k].comment = Some(StatusIncomplete)
                               \/ IsPlainError(t[k])}
               /\ Cardinality(WorkKeys(work)) = Len(work)
               /\ \A n \in 1..Len(work) : work[n][2] = ee[work[n][1]]

\* The pass over a store that lacks Farewell and holds Greeting with the
\* reference value under a plain error starts with both on the list.
C12_Witness ==
    /\ pc = "translate"
    /\ lang_code = FR
    /\ i = 1
    /\ "Farewell" \notin DOMAIN pre[FR]
    /\ "Greeting" \in DOMAIN pre[FR]
    /\ pre[FR]["Greeting"] = Entry(Hi, Some(StatusError(MsgNone)))
    /\ untranslated = <<<<"Greeting", Hi>>, <<"Farewell", Bye>>>>

\* The failures the claims call retryable, by what was raised: the known
\* client-library fault and the rate-limit signal.
IsRetryableFailure(e) ==
    \/ e.class = "AttributeError" /\ "family" \in e.message
    \/ e.class # "AttributeError" /\ "rate" \in e.message /\ "invalid" \notin e.message

\* An exception that is none of: rate-limit signal, known fault, invalid
\* destination language.
IsOtherFailure(e) ==
    /\ ~(e.class = "AttributeError" /\ "family" \in e.message)
    /\ "rate" \notin e.message
    /\ "invalid" \notin e.message

\* The pauses of main after a failed item: 0.2 s, or 2 s at five failures in
\* a row, and 1 s more after the last item of the language (ms).
DriverSleeps == {<<200>>, <<2000>>, <<200, 1000>>, <<2000, 1000>>}

\* C14: one call of translate_text calls translator.translate at most
\* max_retries (10) times; a call after the first follows a retryable failure;
\* the 10th call ends translate_text whatever it does, and when it raises the
\* item is failed.
C14_RetryCeiling ==
    [][invoked' =>
          /\ attempt + 1 <= 10
          /\ attempt > 0 => ~IsNone(raised) /\ IsRetryableFailure(Val(raised))
          /\ attempt + 1 = 10 =>
                /\ attempt' = 0
                /\ ~IsNone(raised') => outcome'[lang_code][key] \in {"failed", "invalid"}
      ]_vars

\* The 10th call has raised a retryable failure and the item is failed.
C14_Witness ==
    /\ invoked
    /\ attempt = 0
    /\ ~IsNone(raised)
    /\ IsRetryableFailure(Val(raised))
    /\ outcome[FR]["Greeting"] = "failed"

\* C15: an exception that is no rate-limit signal, no known fault and no
\* invalid destination language ends translate_text at once: the item is
\* failed, translate_text does not wait, and the next call, if any, is for
\* the next item.
C15_NonRetryable ==
    [][(invoked' /\ ~IsNone(raised') /\ IsOtherFailure(Val(raised'))) =>
          /\ attempt' = 0
          /\ waits' = <<>>
          /\ outcome'[lang_code][key] = "failed"
          /\ slept' \in DriverSleeps
          /\ \/ pc' = "translate" /\ i' = i + 1
             \/ pc' = "locales"
      ]_vars

\* The first call for Greeting raised such an exception; Farewell is next.
C15_Witness ==
    /\ pc = "translate"
    /\ lang_code = FR
    /\ i = 2
    /\ raised = Some([class |-> "Exception", message |-> {}])
    /\ history[FR]["Greeting"] = <<"failed">>
    /\ slept = <<200>>

\* C16: after the failed attempt a (from 0) of a retryable class,
\* translate_text waits (a + 1) * 2 seconds before the next attempt, so its
\* waits are 2, 4, ..., 18; after the 10th attempt it does not wait.
C16_LinearBackoff ==
    /\ [](waits = [n \in 1..attempt |-> 2 * n])
    /\ [][(invoked' /\ ~IsNone(raised') /\ IsRetryableFailure(Val(raised'))) =>
             IF attempt + 1 < 10
             THEN /\ attempt' = attempt + 1
                  /\ waits' = Append(waits, (attempt + 1) * 2)
                  /\ slept' = <<(attempt + 1) * 2 * 1000>>
             ELSE /\ waits = <<2, 4, 6, 8, 10, 12, 14, 16, 18>>
                  /\ waits' = <<>>
                  /\ slept' \in DriverSleeps
         ]_vars

\* Nine waits are behind the call and the 10th attempt is next.
C16_Witness ==
    /\ waits = <<2, 4, 6, 8, 10, 12, 14, 16, 18>>
    /\ attempt = 9
    /\ raised = Some([class |-> "AttributeError", message |-> {"family"}])

\* C18: the pass over a language goes from each work item to the next,
\* whatever translate_text did with it; it ends before its last item only
\* when InvalidDestinationLanguageError was raised; and when it ends after
\* its last item, every work item has been handled, and translated through
\* translator.translate when there is a translator.
C18_FailureDoesNotStopPass ==
    [][pc = "translate" =>
          /\ pc' = "translate" => i' = i \/ i' = i + 1
          /\ (pc' # "translate" /\ i < Len(untranslated)) =>
                /\ ~IsNone(raised')
                /\ Val(raised').class # "AttributeError"
                /\ "invalid" \in Val(raised').message
          /\ (pc' # "translate" /\ ~invalidSeen') =>
                \A n \in 1..Len(untranslated) :
                    /\ outcome'[lang_code][untranslated[n][1]] # "none"
                    /\ translator => untranslated[n][1] \in called'[lang_code]
      ]_vars

\* Greeting failed and Farewell, after it on the list, was translated.
C18_Witness ==
    /\ localeState[FR] = "done"
    /\ untranslated = <<<<"Greeting", Hi>>, <<"Farewell", Bye>>>>
    /\ outcome[FR]["Greeting"] = "failed"
    /\ outcome[FR]["Farewell"] = "translated"
    /\ "Farewell" \in called[FR]

\* The outcome of work item k of locale l is in the store: the entry exists,
\* with the translation when there is one, and with the status that
\* update_resw_file gives an existing entry after a failure.
Persisted(l, k) ==
    /\ k \in DOMAIN files[l]
    /\ outcome[l][k] = "translated" =>
          files[l][k] = Entry(Val(returned[l][k]), Some(StatusComplete))
    /\ (outcome[l][k] = "same" /\ k \in DOMAIN pre[l]) => IsComplete(files[l][k])
    /\ (outcome[l][k] = "failed" /\ k \in DOMAIN pre[l]) =>
          IF english_entries[k] = Tab THEN IsComplete(files[l][k])
          ELSE IsPlainError(files[l][k]) \/ IsErrorPermanent(files[l][k])

\* C17: during the pass over a language the outcomes not yet saved are those
\* of the items after the last multiple of 5, at most 5 of them; every
\* earlier outcome is in the store; when the pass has ended, after the last
\* item or on InvalidDestinationLanguageError, every outcome is in the store
\* and none is left in memory.
C17_IncrementalPersistence ==
    /\ pc = "translate" =>
          LET done == i - 1
              saved == done - (done % 5)
          IN  /\ DOMAIN translations = {untranslated[n][1] : n \in (saved + 1)..done}
              /\ DOMAIN translation_errors \subseteq DOMAIN translations
              /\ Cardinality(DOMAIN translations) <= 5
              /\ \A n \in 1..saved : Persisted(lang_code, untranslated[n][1])
    /\ pc # "translate" => translations = EmptyDict /\ translation_errors = EmptyDict
    /\ \A l \in Locales : \A k \in Keys :
          (Ended(l) /\ outcome[l][k] \notin {"none", "unsupported"}) => Persisted(l, k)

\* Five items are done and saved, the sixth is next: Greeting, created with
\* its translation, and Close, created after a failure, are in the store.
C17_Witness ==
    /\ pc = "translate"
    /\ i = 6
    /\ Len(untranslated) = 6
    /\ translations = EmptyDict
    /\ "Greeting" \notin DOMAIN pre[FR]
    /\ outcome[FR]["Greeting"] = "translated"
    /\ files[FR]["Greeting"] = Entry(Salut, Some(StatusComplete))
    /\ outcome[FR]["Close"] = "failed"
    /\ "Close" \in DOMAIN files[FR]

\* C20: consecutive_failures is always in 0..4 between the steps; a failed
\* item adds 1 to it, or at the fifth failure in a row sets it to 0 with
\* the pause of 2 s instead of 0.2 s; an item for which translate_text
\* returned a text sets it to 0; nothing else changes it within a pass.
C20_ConsecutiveFailureThrottle ==
    /\ [](consecutive_failures \in 0..4)
    /\ [][(pc = "translate" /\ (i' # i \/ pc' # "translate")) =>
             LET result == outcome'[lang_code][key]
             IN  IF result = "failed"
                 THEN IF consecutive_failures = 4
                      THEN consecutive_failures' = 0 /\ Head(slept') = 2000
                      ELSE /\ consecutive_failures' = consecutive_failures + 1
                           /\ Head(slept') = 200
                 ELSE IF result \in {"translated", "same", "empty"}
                 THEN consecutive_failures' = 0 /\ Head(slept') = 200
                 ELSE consecutive_failures' = consecutive_failures
         ]_vars

\* The first five items failed one after the other: the long pause was made
\* and the counter is back at 0.
C20_Witness ==
    /\ pc = "translate"
    /\ i = 6
    /\ \A n \in 1..5 : outcome[FR][untranslated[n][1]] = "failed"
    /\ consecutive_failures = 0
    /\ slept = <<2000>>

\* A locale has reached the end of its state machine.
Terminal(l) == localeState[l] \in {"done", "skipped-invalid-language"}

\* C19: whatever translator.translate does, every locale of a run that has
\* been started reaches a terminal state; and once a locale has ended as
\* skipped or with failed entries, every locale after it in the order of the
\* locale codes reaches a terminal state too.
C19_LocaleIsolation ==
    /\ \A l \in Range(LocaleOrder) : (pc # "idle") ~> Terminal(l)
    /\ \A m \in 1..Len(LocaleOrder) : \A n \in (m + 1)..Len(LocaleOrder) :
          (/\ pc # "idle"
           /\ \/ localeState[LocaleOrder[m]] = "skipped-invalid-language"
              \/ /\ localeState[LocaleOrder[m]] = "done"
                 /\ \E k \in Keys : outcome[LocaleOrder[m]][k] = "failed")
             ~> Terminal(LocaleOrder[n])

\* de-DE ended on InvalidDestinationLanguageError with an item recorded as
\* failed before it, fj-FJ was skipped, and fr-FR was translated after them.
C19_Witness ==
    /\ pc = "idle"
    /\ "de-DE" \in Locales
    /\ localeState["de-DE"] = "skipped-invalid-language"
    /\ outcome["de-DE"]["Greeting"] = "failed"
    /\ outcome["de-DE"]["Farewell"] = "invalid"
    /\ localeState["fj-FJ"] = "skipped-invalid-language"
    /\ localeState[FR] = "done"
    /\ outcome[FR]["Greeting"] = "translated"

\* C21: the completion sweep applied to a store a second time, right after a
\* first application, changes no value and no status: for en-US and for every
\* other store, the sweep of the swept store is the swept store.
C21_SweepIdempotence ==
    LET ee == parse_resw_file(files[EnUS])
    IN  \A l \in DOMAIN files :
           LET once == Sweep(files[l], ee, l = EnUS)
           IN  Sweep(once, ee, l = EnUS) = once

\* The sweep has given the store of fr-FR, where Greeting had a translation
\* and no status, its statuses; a second sweep leaves the store as it is.
C21_Witness ==
    /\ Ended(FR)
    /\ "Greeting" \in DOMAIN pre[FR]
    /\ pre[FR]["Greeting"] = Entry(Salut, None)
    /\ files[FR] = Sweep(pre[FR], english_entries, FALSE)
    /\ files[FR] # pre[FR]
    /\ Sweep(files[FR], english_entries, FALSE) = files[FR]

\* What the claim says the sweep gives an entry without a status.
ClaimedDefault(l, ee, e, k) ==
    IF l = EnUS THEN StatusComplete
    ELSE IF e.value # ee[k] THEN StatusComplete
    ELSE StatusIncomplete

\* C22, as claimed: the sweep gives every entry without a status marker the
\* status complete in en-US, and in another store complete when the value
\* differs from the en-US value and incomplete when it equals it.
C22_SweepDefaults ==
    LET ee == parse_resw_file(files[EnUS])
    IN  \A l \in DOMAIN files : \A k \in DOMAIN files[l] \cap DOMAIN ee :
           IsNone(files[l][k].comment) =>
              Sweep(files[l], ee, l = EnUS)[k] =
                 Entry(files[l][k].value,
                       Some(ClaimedDefault(l, ee, files[l][k], k)))

\* C22, amended: the same for the keys other than AppName and the KB, MB and
\* GB items, which the sweep marks complete whatever their value; an entry
\* without a status whose key en-US lacks is marked incomplete.
C22_SweepDefaultsExceptListed ==
    LET ee == parse_resw_file(files[EnUS])
    IN  \A l \in DOMAIN files : \A k \in DOMAIN files[l] :
           IsNone(files[l][k].comment) =>
              Sweep(files[l], ee, l = EnUS)[k] =
                 Entry(files[l][k].value,
                       Some(IF k \in {"AppName", "KBComboBoxItem.Content",
                                      "MBComboBoxItem.Content",
                                      "GBComboBoxItem.Content"}
                            THEN StatusComplete
                            ELSE IF k \in DOMAIN ee
                            THEN ClaimedDefault(l, ee, files[l][k], k)
                            ELSE StatusIncomplete))

\* main has swept en-US, whose entries had no status, and the store of
\* fr-FR holds AppName with the en-US value and no status, which the sweep
\* marks complete.
C22_Witness ==
    /\ pc = "locales"
    /\ lang = 1
    /\ \A k \in DOMAIN pre[EnUS] : IsNone(pre[EnUS][k].comment)
    /\ \A k \in DOMAIN files[EnUS] : IsComplete(files[EnUS][k])
    /\ \E k \in DOMAIN files[FR] :
          /\ IsNone(files[FR][k].comment)
          /\ files[FR][k].value = english_entries[k]
          /\ IsComplete(Sweep(files[FR], english_entries, FALSE)[k])

\* C23: for a locale that LANG_CODE_MAP maps to 'en', translator.translate
\* is never called, a locale with work items ends as skipped, and every work
\* item of the locale is in the store with status error-permanent when the run
\* has finished with the locale.
C23_UnsupportedLocale ==
    \A l \in Locales :
        LANG_CODE_MAP[l] = "en" =>
           /\ called[l] = {}
           /\ \A k \in Keys :
                 /\ outcome[l][k] \in {"none", "unsupported"}
                 /\ outcome[l][k] = "unsupported" =>
                       /\ localeState[l] = "skipped-invalid-language"
                       /\ k \in DOMAIN files[l]
                       /\ IsErrorPermanent(files[l][k])

\* The same, for the work items that the store holds and whose en-US value is
\* not 'Tab'; a work item that the store lacks is left out of the store.
UnsupportedLocaleExistingEntries ==
    \A l \in Locales :
        LANG_CODE_MAP[l] = "en" =>
           /\ called[l] = {}
           /\ \A k \in Keys :
                 /\ outcome[l][k] \in {"none", "unsupported"}
                 /\ outcome[l][k] = "unsupported" =>
                       /\ localeState[l] = "skipped-invalid-language"
                       /\ IF k \notin DOMAIN pre[l] THEN k \notin DOMAIN files[l]
                          ELSE IF english_entries[k] = Tab
                          THEN IsComplete(files[l][k])
                          ELSE IsErrorPermanent(files[l][k])

\* The status the sweep leaves on an entry whose key en-US lacks.
OrphanStatus(k, comment) ==
    IF k \in {"AppName", "KBComboBoxItem.Content", "MBComboBoxItem.Content",
              "GBComboBoxItem.Content"}
    THEN Some(StatusComplete)
    ELSE IF IsNone(comment) THEN Some(StatusIncomplete)
    ELSE comment

\* C24, as claimed: an entry of a target store whose key en-US lacks has, at
\* every point of a run, the value and the status marker (or the absence of
\* one) it had when the run started, and is never a work item.
C24_OrphanKeysIgnored ==
    \A l \in Locales : \A k \in DOMAIN pre[l] \ DOMAIN files[EnUS] :
        /\ k \in DOMAIN files[l]
        /\ files[l][k] = pre[l][k]
        /\ k \notin WorkKeys(untranslated)
        /\ outcome[l][k] = "none"
        /\ k \notin called[l]

\* C24, amended: such an entry keeps its value and is never a work item; it
\* keeps its status marker too, but the sweep fills in a missing marker with
\* incomplete and forces AppName and the KB, MB and GB items to complete.
C24_OrphanKeysValueKept ==
    \A l \in Locales : \A k \in DOMAIN pre[l] \ DOMAIN files[EnUS] :
        /\ k \in DOMAIN files[l]
        /\ files[l][k].value = pre[l][k].value
        /\ files[l][k].comment \in
              {pre[l][k].comment, OrphanStatus(k, pre[l][k].comment)}
        /\ Ended(l) => files[l][k].comment = OrphanStatus(k, pre[l][k].comment)
        /\ k \notin WorkKeys(untranslated)
        /\ outcome[l][k] = "none"
        /\ k \notin called[l]

\* The run translated Greeting of fr-FR; Legacy, which en-US lacks and
\* which had no status, has its value and is now marked incomplete.
C24_Witness ==
    /\ Ended(FR)
    /\ "Legacy" \notin DOMAIN files[EnUS]
    /\ "Legacy" \in DOMAIN pre[FR]
    /\ pre[FR]["Legacy"] = Entry(Xx, None)
    /\ files[FR]["Legacy"] = Entry(Xx, Some(StatusIncomplete))
    /\ outcome[FR]["Greeting"] = "translated"

\* C28: an entry that the store held when the run started, whose en-US value
\* is exactly 'Tab', and whose translation attempt failed (or whose locale is
\* not supported) has its value and status complete once the run has saved
\* the outcome; and from then on, in this run and the later ones, it is not
\* changed and is not a work item again.
C28_TabExemption ==
    /\ [](\A l \in Locales : \A k \in DOMAIN pre[l] \cap DOMAIN english_entries :
             (/\ english_entries[k] = Tab
              /\ outcome[l][k] \in {"failed", "invalid", "unsupported"}
              /\ Ended(l) \/ (translations = EmptyDict /\ lang_code = l))
                => /\ k \in DOMAIN files[l]
                   /\ files[l][k] = Entry(pre[l][k].value, Some(StatusComplete)))
    /\ [][\A l \in Locales : \A k \in DOMAIN files[l] \cap DOMAIN english_entries :
             (english_entries[k] = Tab /\ IsComplete(files[l][k]))
                => /\ k \in DOMAIN files'[l]
                   /\ files'[l][k] = files[l][k]
                   /\ outcome'[l][k] \in {outcome[l][k], "none"}
                   /\ called'[l] \ called[l] # {k}
                   /\ (pc' = "translate" /\ languages[lang'] = l)
                         => k \notin WorkKeys(untranslated')
         ]_vars

\* The attempt for TabItem of fr-FR failed in the first run, which left the
\* entry complete; the second run has ended without an attempt for it.
C28_Witness ==
    /\ pc = "idle"
    /\ run = 2
    /\ "TabItem" \in DOMAIN init0[FR]
    /\ init0[FR]["TabItem"] = Entry(Tab, Some(StatusIncomplete))
    /\ history[FR]["TabItem"] = <<"failed">>
    /\ outcome[FR]["TabItem"] = "none"
    /\ files[FR]["TabItem"] = Entry(Tab, Some(StatusComplete))
    /\ files["fj-FJ"]["TabItem"] = Entry(Tab, Some(StatusComplete))

\* C29: in a run without a translator, translator.translate is never called,
\* and every work item that the store held keeps its value and the status it
\* had after classification (incomplete where it had none): no entry becomes
\* an error or a permanent error that was not one when the run started.
C29_NoTranslatorOnlyIdentifies ==
    (run > 0 /\ ~translator) =>
        \A l \in Locales :
            /\ called[l] = {}
            /\ \A k \in DOMAIN pre[l] :
                  outcome[l][k] # "none" =>
                     /\ k \in DOMAIN files[l]
                     /\ files[l][k] =
                           Entry(pre[l][k].value,
                                 IF IsNone(pre[l][k].comment) THEN Some(StatusIncomplete)
                                 ELSE pre[l][k].comment)

\* What holds of such a run: no call of translator.translate, and no value
\* of the store is changed.
NoTranslatorNoCall ==
    (run > 0 /\ ~translator) =>
        \A l \in Locales :
            /\ called[l] = {}
            /\ \A k \in DOMAIN pre[l] :
                  k \in DOMAIN files[l] /\ files[l][k].value = pre[l][k].value

\* C25: add_entry_to_resw on a store that does not hold the key returns
\* success and adds exactly one entry, with the given key and value and with
\* status complete in en-US and incomplete in any other store; every entry
\* that the store held is kept as it was, and no other store is changed.
C25_AddNewKey ==
    (edit.op = "add" /\ edit.key \notin DOMAIN edit.before[edit.locale]) =>
        LET l == edit.locale
            status == IF l = EnUS THEN StatusComplete ELSE StatusIncomplete
        IN  /\ edit.success
            /\ edit.message = "Added successfully"
            /\ Len(edit.doc) = Cardinality(DOMAIN edit.before[l]) + 1
            /\ edit.doc[Len(edit.doc)] = Element(edit.key, edit.value, Some(status))
            /\ DOMAIN files[l] = DOMAIN edit.before[l] \cup {edit.key}
            /\ files[l][edit.key] = Entry(edit.value, Some(status))
            /\ \A k \in DOMAIN edit.before[l] : files[l][k] = edit.before[l][k]
            /\ \A m \in DOMAIN files \ {l} : files[m] = edit.before[m]

\* Open was added to en-US and then to fr-FR.
C25_Witness ==
    /\ edit.op = "add"
    /\ edit.locale = FR
    /\ edit.key = "Open"
    /\ edit.success
    /\ "Open" \notin DOMAIN edit.before[FR]
    /\ "Open" \in DOMAIN edit.before[EnUS]
    /\ files[EnUS]["Open"] = Entry(Hi, Some(StatusComplete))
    /\ files[FR]["Open"] = Entry(Xx, Some(StatusIncomplete))

\* C26: add_entry_to_resw with a key that the store holds returns failure
\* with the message 'already exists' and leaves every store as it was: the
\* entry keeps its value and status; and after every add no name is on two
\* elements of the file.
C26_AddExistingKey ==
    edit.op = "add" =>
        /\ edit.key \in DOMAIN edit.before[edit.locale] =>
              /\ ~edit.success
              /\ edit.message = "already exists"
              /\ files = edit.before
              /\ edit.doc = Elements(edit.before[edit.locale])
        /\ \A m, n \in 1..Len(edit.doc) : edit.doc[m].name = edit.doc[n].name => m = n

\* Greeting, which de-DE holds with a translation and a permanent error,
\* was added again with another value after an add that succeeded.
C26_Witness ==
    /\ edit.op = "add"
    /\ edit.n >= 2
    /\ edit.locale = "de-DE"
    /\ edit.key = "Greeting"
    /\ edit.value = Xx
    /\ ~edit.success
    /\ files["de-DE"]["Greeting"] = Entry(Salut, Some(StatusErrorPermanent))
    /\ \E l \in DOMAIN files : "Open" \in DOMAIN files[l]

\* What remove_entry is to do with the key of the last call.
Removed ==
    /\ \A l \in DOMAIN edit.before :
          /\ l \in DOMAIN files
          /\ files[l] = Without(edit.before[l], edit.key)
    /\ edit.removed_count =
          Cardinality({l \in DOMAIN edit.before : edit.key \in DOMAIN edit.before[l]})

\* C27: remove_entry deletes the entry with the given key from every store
\* that holds it, returns the number of entries removed, and leaves every
\* other entry of every store in place; when no store holds the key it
\* returns 0 and changes no store.
C27_RemoveEntry == edit.op = "remove" => Removed

\* The same for an entry name without a double quote.
RemoveEntryPlainName ==
    (edit.op = "remove" /\ edit.key \in {"Greeting", "Open"}) => Removed

\* Greeting was removed from the three stores that held it, and the other
\* entries are in place.
RemoveEntryReached ==
    /\ edit.op = "remove"
    /\ edit.key = "Greeting"
    /\ edit.removed_count = 3
    /\ \A l \in DOMAIN files : "Greeting" \notin DOMAIN files[l]
    /\ files[EnUS] = EnglishStore({"AppName"}, Some(StatusComplete))

\* C30: over the runs of main (classification, translation passes with any
\* result of translator.translate, sweeps, the marking of an unsupported
\* locale) and the calls of add_entry_to_resw, an entry of any store whose
\* status is complete is in the store with status complete after every step.
C30_CompleteIsAbsorbing ==
    [][\A l \in DOMAIN files : \A k \in DOMAIN files[l] :
          IsComplete(files[l][k]) =>
             /\ k \in DOMAIN files'[l]
             /\ IsComplete(files'[l][k])
      ]_vars

\* Two runs are over.  Greeting of fr-FR, complete with the en-US value from
\* the start, was given to add_entry_to_resw with another value and is as it
\* was; TabItem became complete in the first run, through a failed attempt
\* in fr-FR and through the marking of fj-FJ, and the second run left both.
C30_Witness ==
    /\ pc = "idle"
    /\ run = MaxRuns
    /\ edit.op = "add"
    /\ edit.locale = FR
    /\ edit.key = "Greeting"
    /\ ~edit.success
    /\ init0[FR]["Greeting"] = Entry(Hi, Some(StatusComplete))
    /\ files[FR]["Greeting"] = Entry(Hi, Some(StatusComplete))
    /\ init0[FR]["TabItem"] = Entry(Tab, Some(StatusIncomplete))
    /\ history[FR]["TabItem"] = <<"failed">>
    /\ outcome[FR]["TabItem"] = "none"
    /\ files[FR]["TabItem"] = Entry(Tab, Some(StatusComplete))
    /\ files["fj-FJ"]["TabItem"] = Entry(Tab, Some(StatusComplete))

====
